---- MODULE Spec2Model ----
(***************************************************************************)
(* Model of rl_upload.py, the Spectra Analyze (A1000) bulk file uploader:  *)
(* resolve_upload_fn, collect_files, upload_with_retry and the loop of     *)
(* main.  File names and paths are sequences of one-character strings, so  *)
(* that fnmatch and the sort of the file list are computed character by    *)
(* character as Python does.                                                *)
(***************************************************************************)
EXTENDS Integers, Sequences, FiniteSets, TLC

(* ---------------------------------------------------------------------- *)
(* Bounds of the model and defaults of the command line.                   *)
(* ---------------------------------------------------------------------- *)

\* Largest value of --retries drawn for a run on a single file.
MaxRetries == 4

\* Largest value of --retries drawn for a run on a directory.
MaxDirRetries == 3

\* Default of --retry-delay.
DefaultRetryDelay == 5

\* Default of --sleep (RL_SLEEP unset).
DefaultSleep == 2

(* ---------------------------------------------------------------------- *)
(* Characters and strings.                                                 *)
(* ---------------------------------------------------------------------- *)

Letters == <<"a", "b", "c", "d", "e", "f", "g", "h", "i", "j", "k", "l", "m",
             "n", "o", "p", "q", "r", "s", "t", "u", "v", "w", "x", "y", "z">>

\* The code point of a character, as Python's string comparison uses it.
CodePoint(c) ==
    CASE c = "!" -> 33
      [] c = "*" -> 42
      [] c = "-" -> 45
      [] c = "." -> 46
      [] c = "/" -> 47
      [] c = "?" -> 63
      [] c = "[" -> 91
      [] c = "]" -> 93
      [] OTHER -> 96 + (CHOOSE i \in 1..Len(Letters) : Letters[i] = c)

\* s < t for two Python strings: the first differing character decides, a
\* proper prefix is smaller.
RECURSIVE StrLess(_, _)
StrLess(s, t) ==
    IF t = <<>> THEN FALSE
    ELSE IF s = <<>> THEN TRUE
    ELSE IF s[1] = t[1] THEN StrLess(Tail(s), Tail(t))
    ELSE CodePoint(s[1]) < CodePoint(t[1])

\* list.sort() on a list of strings.
Sorted(list) == SortSeq(list, StrLess)

\* The index of the last "/" of p, 0 when there is none.
LastSlash(p) ==
    IF \E i \in 1..Len(p) : p[i] = "/"
    THEN CHOOSE i \in 1..Len(p) : p[i] = "/" /\ \A j \in (i + 1)..Len(p) : p[j] # "/"
    ELSE 0

\* os.path.basename
BaseName(p) == SubSeq(p, LastSlash(p) + 1, Len(p))

\* os.path.join(a, b) for a relative b.
Join(a, b) == IF a # <<>> /\ a[Len(a)] = "/" THEN a \o b ELSE a \o <<"/">> \o b

\* The working directory of the process.
Cwd == <<"/", "w">>

\* os.path.abspath for a path without "." or ".." components.
AbsPath(p) == IF p # <<>> /\ p[1] = "/" THEN p ELSE Join(Cwd, p)

(* ---------------------------------------------------------------------- *)
(* fnmatch.fnmatch(name, pattern) on POSIX: *, ?, [seq], [!seq].         *)
(* ---------------------------------------------------------------------- *)

\* The index of the "]" closing the class that opens at pat[i - 1], or 0 when
\* the "[" is unclosed (it is then a literal "[").  A leading "!" and a "]"
\* right after it belong to the class.
ClassEnd(pat, i) ==
    LET n == Len(pat)
        j1 == IF i <= n /\ pat[i] = "!" THEN i + 1 ELSE i
        j2 == IF j1 <= n /\ pat[j1] = "]" THEN j1 + 1 ELSE j1
    IN  IF \E j \in j2..n : pat[j] = "]"
        THEN CHOOSE j \in j2..n : pat[j] = "]" /\ \A k \in j2..(j - 1) : pat[k] # "]"
        ELSE 0

\* Whether character c is in the class body stuff (ranges a-z included).
InClass(c, stuff) ==
    \E k \in 1..Len(stuff) :
        \/ /\ stuff[k] = c
           /\ ~(stuff[k] = "-" /\ 1 < k /\ k < Len(stuff))
        \/ /\ k + 2 <= Len(stuff)
           /\ stuff[k + 1] = "-"
           /\ CodePoint(stuff[k]) <= CodePoint(c)
           /\ CodePoint(c) <= CodePoint(stuff[k + 2])

RECURSIVE Match(_, _)
Match(name, pat) ==
    IF pat = <<>> THEN name = <<>>
    ELSE IF pat[1] = "*" THEN
        \/ Match(name, Tail(pat))
        \/ name # <<>> /\ Match(Tail(name), pat)
    ELSE IF name = <<>> THEN FALSE
    ELSE IF pat[1] = "?" THEN Match(Tail(name), Tail(pat))
    ELSE IF pat[1] = "[" /\ ClassEnd(pat, 2) # 0 THEN
        LET e == ClassEnd(pat, 2)
            neg == pat[2] = "!"
            stuff == SubSeq(pat, IF neg THEN 3 ELSE 2, e - 1)
        IN  /\ InClass(name[1], stuff) # neg
            /\ Match(Tail(name), SubSeq(pat, e + 1, Len(pat)))
    ELSE name[1] = pat[1] /\ Match(Tail(name), Tail(pat))

fnmatch(name, pattern) == Match(name, pattern)

\* any(fnmatch.fnmatch(fname, p) for p in excludes)
Excluded(fname, excludes) ==
    \E k \in 1..Len(excludes) : fnmatch(fname, excludes[k])

(* ---------------------------------------------------------------------- *)
(* The file system the run sees.                                           *)
(* ---------------------------------------------------------------------- *)

\* Directory r with three regular files, a fifo and a subdirectory whose
\* name ends in .tmp and which holds one regular file.
Entries ==
    { [path |-> <<"r">>, kind |-> "dir"],
      [path |-> <<"r", "/", "a", ".", "t", "x", "t">>, kind |-> "file"],
      [path |-> <<"r", "/", "b", ".", "e", "x", "e">>, kind |-> "file"],
      [path |-> <<"r", "/", "c", ".", "t", "m", "p">>, kind |-> "file"],
      [path |-> <<"r", "/", "p">>, kind |-> "fifo"],
      [path |-> <<"r", "/", "s", ".", "t", "m", "p">>, kind |-> "dir"],
      [path |-> <<"r", "/", "s", ".", "t", "m", "p", "/", "d", ".", "t", "x", "t">>,
       kind |-> "file"] }

Kind(p) ==
    IF \E e \in Entries : e.path = p
    THEN (CHOOSE e \in Entries : e.path = p).kind
    ELSE "none"

\* os.path.isfile, os.path.isdir
IsFile(p) == Kind(p) = "file"
IsDir(p) == Kind(p) = "dir"

\* The directory that holds p.
Parent(p) == SubSeq(p, 1, LastSlash(p) - 1)

RECURSIVE Perms(_)
Perms(S) ==
    IF S = {} THEN {<<>>}
    ELSE UNION {{<<x>> \o q : q \in Perms(S \ {x})} : x \in S}

\* The entries of directory d.
Children(d) ==
    {e.path : e \in {x \in Entries : LastSlash(x.path) # 0 /\ Parent(x.path) = d}}

\* Every order of the entries of every directory of D, one directory after
\* the other.
RECURSIVE OrdersOf(_)
OrdersOf(D) ==
    IF D = {} THEN {<<>>}
    ELSE LET d == CHOOSE x \in D : TRUE
         IN  {p \o q : p \in Perms(Children(d)), q \in OrdersOf(D \ {d})}

\* The orders in which the operating system may list the entries: the order
\* of os.listdir and of os.walk's filenames within a directory is arbitrary.
DirOrders == OrdersOf({e.path : e \in {x \in Entries : x.kind = "dir"}})

\* The listing orders collect_files can meet on target_path: it lists
\* directories only.
OrdersFor(target_path) == IF IsDir(target_path) THEN DirOrders ELSE {<<>>}

\* os.listdir(d), as names, in the order the operating system gives.
ListDir(d, order) ==
    LET InD(p) == Parent(p) = d
        here == SelectSeq(order, InD)
    IN  [i \in 1..Len(here) |-> BaseName(here[i])]

\* os.walk(top), flattened to the os.path.join(root, fname) of every
\* filename it yields: top down, the non-directories of a directory first,
\* then its subdirectories in turn.
RECURSIVE WalkNames(_, _)
RECURSIVE WalkAll(_, _)
WalkNames(top, order) ==
    LET names == ListDir(top, order)
        NotDir(n) == ~IsDir(Join(top, n))
        Dir(n) == IsDir(Join(top, n))
        filenames == SelectSeq(names, NotDir)
        dirs == SelectSeq(names, Dir)
    IN  [i \in 1..Len(filenames) |-> Join(top, filenames[i])]
            \o WalkAll([i \in 1..Len(dirs) |-> Join(top, dirs[i])], order)
WalkAll(tops, order) ==
    IF tops = <<>> THEN <<>>
    ELSE WalkNames(Head(tops), order) \o WalkAll(Tail(tops), order)

(* ---------------------------------------------------------------------- *)
(* collect_files                                                           *)
(* ---------------------------------------------------------------------- *)

\* Variant of Scan: the exclude patterns are tried before the check for a
\* regular file.
RECURSIVE ScanExcludeFirst(_, _, _)
ScanExcludeFirst(fulls, excludes, acc) ==
    IF fulls = <<>> THEN acc
    ELSE LET full == Head(fulls)
         IN  IF Excluded(BaseName(full), excludes)
             THEN ScanExcludeFirst(Tail(fulls), excludes,
                                   [acc EXCEPT !.skipped = acc.skipped + 1])
             ELSE IF ~IsFile(full) THEN ScanExcludeFirst(Tail(fulls), excludes, acc)
             ELSE ScanExcludeFirst(Tail(fulls), excludes,
                       [acc EXCEPT !.files = Append(acc.files, AbsPath(full))])

\* The loop body of collect_files over the candidate paths fulls: a path
\* that is no regular file is passed over, an excluded one is counted, the
\* others are appended as absolute paths.
RECURSIVE Scan(_, _, _)
\* Variant of Scan: a file is counted once for every pattern it matches.
RECURSIVE ScanCountsPatterns(_, _, _)
ScanCountsPatterns(fulls, excludes, acc) ==
    IF fulls = <<>> THEN acc
    ELSE LET full == Head(fulls)
             hits == Cardinality({k \in 1..Len(excludes) :
                                     fnmatch(BaseName(full), excludes[k])})
         IN  IF ~IsFile(full) THEN ScanCountsPatterns(Tail(fulls), excludes, acc)
             ELSE IF hits > 0
             THEN ScanCountsPatterns(Tail(fulls), excludes,
                                     [acc EXCEPT !.skipped = acc.skipped + hits])
             ELSE ScanCountsPatterns(Tail(fulls), excludes,
                       [acc EXCEPT !.files = Append(acc.files, AbsPath(full))])

Scan(fulls, excludes, acc) ==
    IF fulls = <<>> THEN acc
    ELSE LET full == Head(fulls)
         IN  IF ~IsFile(full) THEN Scan(Tail(fulls), excludes, acc)
             ELSE IF Excluded(BaseName(full), excludes)
             THEN Scan(Tail(fulls), excludes,
                       [acc EXCEPT !.skipped = acc.skipped + 1])
             ELSE Scan(Tail(fulls), excludes,
                       [acc EXCEPT !.files = Append(acc.files, AbsPath(full))])

\* Variant of SortFiles: the list is returned in listing order.
SortFilesNone(files) == files

\* The list collect_files sorts before it returns it.
SortFiles(files) == Sorted(files)

\* collect_files(target_path, recursive, excludes) with the directory
\* entries listed in the given order; exit is TRUE where it calls
\* sys.exit(1).
collect_files(target_path, recursive, excludes, order) ==
    IF IsFile(target_path) THEN
        IF Excluded(BaseName(target_path), excludes)
        THEN [exit |-> FALSE, files |-> <<>>, skipped |-> 1]
        ELSE [exit |-> FALSE, files |-> <<AbsPath(target_path)>>, skipped |-> 0]
    ELSE IF ~IsDir(target_path) THEN
        [exit |-> TRUE, files |-> <<>>, skipped |-> 0]
    ELSE
        LET names == ListDir(target_path, order)
            fulls == IF recursive THEN WalkNames(target_path, order)
                     ELSE [i \in 1..Len(names) |-> Join(target_path, names[i])]
            got == Scan(fulls, excludes, [files |-> <<>>, skipped |-> 0])
        IN  [exit |-> FALSE, files |-> SortFiles(got.files), skipped |-> got.skipped]

(* ---------------------------------------------------------------------- *)
(* Python values.                                                          *)
(* ---------------------------------------------------------------------- *)

\* None; a string s is [str |-> s], a response [status_code |-> n], a
\* process exit status [code |-> n].
None == [none |-> TRUE]

Str(s) == [str |-> s]

Response(code) == [status_code |-> code]

(* ---------------------------------------------------------------------- *)
(* resolve_upload_fn                                                       *)
(* ---------------------------------------------------------------------- *)

\* Variant of PathMethods: the two names are probed in the other order.
PathMethodsSwapped == <<"submit_file_from_path", "upload_sample_from_path">>

\* The names probed, in the order of the two loops.
PathMethods == <<"upload_sample_from_path", "submit_file_from_path">>

HandleMethods == <<"upload_sample_from_file", "submit_file_from_handle">>

\* A client object is the set of its upload methods, each with the
\* parameter names inspect.signature reports for it.
Method(name, params) == [name |-> name, signature |-> TRUE, params |-> params]

\* A method inspect.signature raises ValueError for: a callable that carries
\* no signature (a built-in or extension function without one).
Opaque(name) == [name |-> name, signature |-> FALSE, params |-> <<>>]

\* getattr(a1000, name, None) is not None
HasAttr(a1000, name) == \E m \in a1000 : m.name = name

GetAttr(a1000, name) == CHOOSE m \in a1000 : m.name = name

\* The first name of names the client has, 0 when it has none.
FirstPresent(a1000, names) ==
    IF \E i \in 1..Len(names) : HasAttr(a1000, names[i])
    THEN CHOOSE i \in 1..Len(names) :
            /\ HasAttr(a1000, names[i])
            /\ \A j \in 1..(i - 1) : ~HasAttr(a1000, names[j])
    ELSE 0

\* The parameter _make_path_caller and _make_handle_caller pass the argument
\* under: the first parameter that is not self, "" (positional call) when
\* there is none.
FirstParam(params) ==
    IF Len(params) > 1 /\ params[1] = "self" THEN params[2]
    ELSE IF params # <<>> THEN params[1] ELSE ""

\* An exception no handler catches.
Uncaught(name) == [raised |-> name]

\* A bound operation: kind "path" calls the method with the path, kind
\* "handle" opens the file and calls the method with the handle; param is the
\* keyword the argument is passed under, "" for a positional call.
IsOperation(fn) == "kind" \in DOMAIN fn

\* _make_path_caller(method); inspect.signature is not inside a try.
make_path_caller(method) ==
    IF ~method.signature THEN Uncaught("ValueError")
    ELSE [kind |-> "path", name |-> method.name, param |-> FirstParam(method.params)]

\* _make_handle_caller(method)
make_handle_caller(method) ==
    IF ~method.signature THEN Uncaught("ValueError")
    ELSE [kind |-> "handle", name |-> method.name, param |-> FirstParam(method.params)]

\* resolve_upload_fn(a1000): the bound operation, None where it calls
\* sys.exit(1), or the exception the caller's construction raised.
resolve_upload_fn(a1000) ==
    LET i == FirstPresent(a1000, PathMethods)
        j == FirstPresent(a1000, HandleMethods)
    IN  IF i # 0 THEN make_path_caller(GetAttr(a1000, PathMethods[i]))
        ELSE IF j # 0 THEN make_handle_caller(GetAttr(a1000, HandleMethods[j]))
        ELSE None

(* ---------------------------------------------------------------------- *)
(* What one call of the upload operation can do.                           *)
(* ---------------------------------------------------------------------- *)

\* Status codes of a response the call returns.
ReturnStatuses == {100, 200, 299, 300, 404, 429, 499, 500, 503}

\* Status codes of a response carried by an exception of the SDK.
EmbeddedStatuses == {200, 404, 429, 503}

Returns(code) ==
    [kind |-> "return", embedded |-> FALSE, status |-> code, name |-> "Response", text |-> ""]

Raises(kind, name, text) ==
    [kind |-> kind, embedded |-> FALSE, status |-> 0, name |-> name, text |-> text]

RaisesWith(code) ==
    [kind |-> "error", embedded |-> TRUE, status |-> code, name |-> "RequestError",
     text |-> "request failed"]

\* The file cannot be opened: open(fp, "rb") of a handle-based operation
\* raises, or the method of a path-based operation does when it opens the
\* path.
OpenFails == Raises("error", "FileNotFoundError", "No such file")

\* The results of upload_fn(file_path): a response, requests' Timeout,
\* requests' ConnectionError, or another exception with or without a
\* response attribute.
Results ==
    {Returns(c) : c \in ReturnStatuses}
        \cup {Raises("timeout", "Timeout", "timed out"),
              Raises("connection", "ConnectionError", "refused"),
              Raises("error", "ValueError", "boom"),
              OpenFails}
        \cup {RaisesWith(c) : c \in EmbeddedStatuses}

\* The file handles of one call of a handle-based operation with result r:
\* "with open(fp, 'rb') as fh" opens once, the method is called when the open
\* succeeded, and the with statement closes the handle however the method
\* ends.  A path-based operation opens nothing itself.
Handles(opens, calls, closes, modes) ==
    [opens |-> opens, calls |-> calls, closes |-> closes, modes |-> modes]

\* Variant of UploadHandles: the handle is closed after the method returned,
\* and left open when the method raised.
UploadHandlesCloseOnReturn(fn, r) ==
    IF fn.kind # "handle" THEN Handles(0, 0, 0, {})
    ELSE IF r = OpenFails THEN Handles(0, 0, 0, {})
    ELSE Handles(1, 1, IF r.kind = "return" THEN 1 ELSE 0, {"rb"})

UploadHandles(fn, r) ==
    IF fn.kind # "handle" THEN Handles(0, 0, 0, {})
    ELSE IF r = OpenFails THEN Handles(0, 0, 0, {})
    ELSE Handles(1, 1, 1, {"rb"})

(* ---------------------------------------------------------------------- *)
(* upload_with_retry                                                       *)
(* ---------------------------------------------------------------------- *)

\* Variant of IsSuccess: only 200 counts as success.
IsSuccessOnly200(code) == code = 200

\* 200 <= code < 300
IsSuccess(code) == 200 <= code /\ code < 300

\* Variant of IsRetryable: only 429 is retried.
IsRetryableOnly429(code) == code = 429

\* code == 429 or code >= 500
IsRetryable(code) == code = 429 \/ code >= 500

\* f"HTTP {code}"
HttpErr(code) == "HTTP " \o ToString(code)

\* The outcome of one iteration's try statement: either the function
\* returns the pair (response, err), or the loop goes on to the check of the
\* attempt counter with last_err set.
Return(response, err) ==
    [ret |-> TRUE, response |-> response, err |-> err, last_err |-> ""]

Retry(last_err) ==
    [ret |-> FALSE, response |-> None, err |-> None, last_err |-> last_err]

\* Variant of ClassifyResponse: every status of 400 or more is retried.
ClassifyResponseRetry4xx(r) ==
    IF IsSuccess(r.status) THEN Return(Response(r.status), None)
    ELSE IF r.status >= 400 THEN Retry(HttpErr(r.status))
    ELSE Return(Response(r.status), Str(HttpErr(r.status)))

\* Variant of ClassifyResponse: every status below 400 is taken as success.
ClassifyResponseOkBelow400(r) ==
    IF r.status < 400 THEN Return(Response(r.status), None)
    ELSE IF IsRetryable(r.status) THEN Retry(HttpErr(r.status))
    ELSE Return(Response(r.status), Str(HttpErr(r.status)))

\* The try body after upload_fn returned a response.
ClassifyResponse(r) ==
    IF IsSuccess(r.status) THEN Return(Response(r.status), None)
    ELSE IF IsRetryable(r.status) THEN Retry(HttpErr(r.status))
    ELSE Return(Response(r.status), Str(HttpErr(r.status)))

\* Variant of ClassifyException: an error without a response is retried.
ClassifyExceptionRetryUnknown(r) ==
    IF r.embedded
    THEN IF IsRetryable(r.status)
         THEN Retry(HttpErr(r.status) \o " (via " \o r.name \o ")")
         ELSE Return(None, Str(HttpErr(r.status)))
    ELSE Retry(r.text)

\* The handler "except Exception as exc".
ClassifyException(r) ==
    IF r.embedded
    THEN IF IsRetryable(r.status)
         THEN Retry(HttpErr(r.status) \o " (via " \o r.name \o ")")
         ELSE Return(None, Str(HttpErr(r.status)))
    ELSE Return(None, Str(r.text))

\* The try statement for one result r of the call upload_fn(file_path).
Classify(r) ==
    CASE r.kind = "return" -> ClassifyResponse(r)
      [] r.kind = "timeout" -> Retry("timeout")
      [] r.kind = "connection" -> Retry("connection error: " \o r.text)
      [] OTHER -> ClassifyException(r)

\* Variant of MoreAttempts: the comparison lets attempt = retries through.
MoreAttemptsInclusive(attempt, retries) == attempt <= retries

\* attempt < retries: another attempt follows.
MoreAttempts(attempt, retries) == attempt < retries

\* Variant of Wait: the delay doubles with every attempt.
WaitDoubling(retry_delay, attempt) == retry_delay * 2 ^ (attempt - 1)

\* wait = retry_delay * attempt
Wait(retry_delay, attempt) == retry_delay * attempt

\* f"{last_err} after {retries} attempts"
Exhausted(last_err, retries) ==
    Str(last_err \o " after " \o ToString(retries) \o " attempts")

(* ---------------------------------------------------------------------- *)
(* State.                                                                  *)
(* ---------------------------------------------------------------------- *)

VARIABLES
    a1000,       \* the SDK client object
    service,     \* the results of the appliance per file, None: any at each call
    io,          \* history: files opened, methods called with a handle, closes
    args,        \* the parsed command line
    pc,          \* where main is
    upload_fn,   \* the operation resolve_upload_fn bound, None before
    files,       \* main: the list collect_files returned
    skipped,     \* main: the count collect_files returned
    total_seen,  \* main: len(files) + skipped
    idx,         \* main: the loop index, 0 before the loop
    uploaded,    \* main: counter
    failed,      \* main: counter
    response,    \* main: first component of upload_with_retry's result
    err,         \* main: second component of upload_with_retry's result
    attempt,     \* upload_with_retry: loop variable, 0 outside the call
    last_err,    \* upload_with_retry: local, "" outside the call
    summary,     \* the arguments print_summary was called with, None before
    exit_code,   \* the exit status of the process, None while it runs
    log,         \* history: upload calls, sleeps and result lines, in order
    last_call    \* history: the latest upload call of the current file

vars == <<a1000, service, io, args, pc, upload_fn, files, skipped, total_seen, idx, uploaded,
          failed, response, err, attempt, last_err, summary, exit_code, log,
          last_call>>

\* An entry of the log.  ev is "call" (n: the attempt), "backoff" (n: the
\* seconds slept), "pace" (n: the seconds slept), "ok" or "fail" (the result
\* line of file number file).
Event(ev, file, n) == [ev |-> ev, file |-> file, n |-> n]

(* ---------------------------------------------------------------------- *)
(* Inputs.                                                                 *)
(* ---------------------------------------------------------------------- *)

\* Clients: none of the methods, a path method, only handle methods, a
\* path method without a signature.
Clients ==
    { {},
      {Method("submit_file_from_path", <<"file_path">>),
       Method("upload_sample_from_file", <<"file_source">>)},
      {Method("upload_sample_from_file", <<"file_source">>),
       Method("submit_file_from_handle", <<>>)},
      {Opaque("upload_sample_from_path"),
       Method("submit_file_from_path", <<"file_path">>)} }

\* Clients with every subset of the four methods; the signature of the first
\* starts with self (a function taken from the class), those of the second
\* and the last name no parameter.
SdkMethods ==
    { Method("upload_sample_from_path", <<"self", "file_path">>),
      Method("submit_file_from_path", <<>>),
      Method("upload_sample_from_file", <<"file_source">>),
      Method("submit_file_from_handle", <<>>) }

AllClients == SUBSET SdkMethods

\* The client of the current SDK: a path method.
PathClients == { {Method("upload_sample_from_path", <<"file_path">>)} }

\* Target paths: a file and a path that does not exist; the directory.
FilePaths ==
    { <<"r", "/", "a", ".", "t", "x", "t">>,
      <<"n", "o">> }

DirPaths == { <<"r">> }

\* Values of the repeatable --exclude option.
ExcludeTmp == << <<"*", ".", "t", "m", "p">> >>

ExcludeLists ==
    { <<>>,
      ExcludeTmp,
      << <<"*", ".", "t", "m", "p">>, <<"[", "a", "-", "c", "]", ".", "*">> >>,
      << <<"*">> >> }

\* Values of --retries up to max: argparse takes any int.
RetriesUpTo(max) == (0 - 1)..max

\* Values of --retry-delay.
RetryDelays == {0, DefaultRetryDelay}

\* Values of --sleep.
Sleeps == {DefaultSleep}

\* The appliance answers every call with any of the results.
AnyResult == {None}

\* The appliance answers every call for a file with the same result: each
\* file is accepted, answered 503, or answered 404.
RegularFiles == {AbsPath(e.path) : e \in {x \in Entries : x.kind = "file"}}

FixedResults == [RegularFiles -> {Returns(200), Returns(503), Returns(404)}]

\* The state when main has parsed the command line and built the client.
InitFrom(clients, services, paths, recursives, excludes, retriesSet, delays, sleeps) ==
    /\ a1000 \in clients
    /\ service \in services
    /\ io = Handles(0, 0, 0, {})
    /\ args \in [target_path : paths, recursive : recursives, exclude : excludes,
                 retries : retriesSet, retry_delay : delays, sleep : sleeps]
    /\ pc = "resolve"
    /\ upload_fn = None
    /\ files = <<>>
    /\ skipped = 0
    /\ total_seen = 0
    /\ idx = 0
    /\ uploaded = 0
    /\ failed = 0
    /\ response = None
    /\ err = None
    /\ attempt = 0
    /\ last_err = ""
    /\ summary = None
    /\ exit_code = None
    /\ log = <<>>
    /\ last_call = None

\* Runs on a single file (or on a path that does not exist) with every retry
\* policy; runs on the directory with the smaller retry counts; runs on a
\* single file with every set of methods on the client; and runs on the
\* directory against an appliance that answers each file in one way.
Init ==
    \/ InitFrom(Clients, AnyResult, FilePaths, BOOLEAN, ExcludeLists,
                RetriesUpTo(MaxRetries), RetryDelays, Sleeps)
    \/ InitFrom(Clients, AnyResult, DirPaths, BOOLEAN, ExcludeLists,
                RetriesUpTo(MaxDirRetries), {DefaultRetryDelay}, Sleeps)
    \/ InitFrom(AllClients, AnyResult, FilePaths, {FALSE}, {ExcludeTmp}, {2},
                {DefaultRetryDelay}, Sleeps)
    \/ InitFrom(PathClients, FixedResults, DirPaths, {FALSE}, {ExcludeTmp}, {3},
                {DefaultRetryDelay}, Sleeps)

(* ---------------------------------------------------------------------- *)
(* main                                                                    *)
(* ---------------------------------------------------------------------- *)

\* upload_fn = resolve_upload_fn(a1000), a method found.
Resolve ==
    /\ pc = "resolve"
    /\ IsOperation(resolve_upload_fn(a1000))
    /\ upload_fn' = resolve_upload_fn(a1000)
    /\ pc' = "collect"
    /\ UNCHANGED <<a1000, service, io, args, files, skipped, total_seen, idx, uploaded, failed,
                   response, err, attempt, last_err, summary, exit_code, log,
                   last_call>>

\* Variant of ResolveExit: the process ends with status 0.
ResolveExitZero ==
    /\ pc = "resolve"
    /\ resolve_upload_fn(a1000) = None
    /\ exit_code' = [code |-> 0]
    /\ pc' = "done"
    /\ UNCHANGED <<a1000, service, io, args, upload_fn, files, skipped, total_seen, idx,
                   uploaded, failed, response, err, attempt, last_err, summary, log,
                   last_call>>

\* resolve_upload_fn finds no method: sys.exit(1).
ResolveExit ==
    /\ pc = "resolve"
    /\ resolve_upload_fn(a1000) = None
    /\ exit_code' = [code |-> 1]
    /\ pc' = "done"
    /\ UNCHANGED <<a1000, service, io, args, upload_fn, files, skipped, total_seen, idx, uploaded,
                   failed, response, err, attempt, last_err, summary, log, last_call>>

\* resolve_upload_fn raises: nothing in main catches the exception, the
\* interpreter prints the traceback and exits with status 1.
ResolveRaise ==
    /\ pc = "resolve"
    /\ "raised" \in DOMAIN resolve_upload_fn(a1000)
    /\ exit_code' = [code |-> 1]
    /\ pc' = "done"
    /\ UNCHANGED <<a1000, service, io, args, upload_fn, files, skipped, total_seen, idx,
                   uploaded, failed, response, err, attempt, last_err, summary, log,
                   last_call>>

\* files, skipped = collect_files(...) up to the loop: with no file the
\* summary is printed and main returns.
Collect(order) ==
    /\ pc = "collect"
    /\ \E c \in {collect_files(args.target_path, args.recursive, args.exclude, order)} :
          /\ ~c.exit
          /\ files' = c.files
          /\ skipped' = c.skipped
          /\ total_seen' = Len(c.files) + c.skipped
          /\ IF c.files = <<>>
             THEN /\ summary' = [uploaded |-> 0, failed |-> 0, skipped |-> c.skipped,
                                 total |-> Len(c.files) + c.skipped]
                  /\ exit_code' = [code |-> 0]
                  /\ pc' = "done"
             ELSE /\ pc' = "next"
                  /\ UNCHANGED <<summary, exit_code>>
    /\ UNCHANGED <<a1000, service, io, args, upload_fn, idx, uploaded, failed, response,
                   err, attempt, last_err, log, last_call>>

\* collect_files finds neither a file nor a directory: sys.exit(1).
CollectExit ==
    /\ pc = "collect"
    /\ collect_files(args.target_path, args.recursive, args.exclude, <<>>).exit
    /\ exit_code' = [code |-> 1]
    /\ pc' = "done"
    /\ UNCHANGED <<a1000, service, io, args, upload_fn, files, skipped, total_seen, idx, uploaded,
                   failed, response, err, attempt, last_err, summary, log, last_call>>

\* The for statement of main takes the next file and calls upload_with_retry,
\* which runs up to the first call of upload_fn; with retries < 1 its loop
\* has no iteration and it returns at once.
BeginUpload ==
    /\ pc = "next"
    /\ idx' = idx + 1
    /\ IF 1 <= args.retries
       THEN /\ attempt' = 1
            /\ last_err' = "unknown error"
            /\ response' = None
            /\ err' = None
            /\ pc' = "attempt"
       ELSE /\ attempt' = 0
            /\ last_err' = ""
            /\ response' = None
            /\ err' = Exhausted("unknown error", args.retries)
            /\ pc' = "returned"
    /\ UNCHANGED <<a1000, service, io, args, upload_fn, files, skipped, total_seen, uploaded, failed,
                   summary, exit_code, log, last_call>>

\* One iteration of the loop of upload_with_retry up to its sleep: the call
\* upload_fn(file_path) with result r, its classification, and the check of
\* the attempt counter.
Attempt(r) ==
    LET c == Classify(r)
    IN  /\ pc = "attempt"
        /\ IF service = None THEN TRUE ELSE r = service[files[idx]]
        /\ log' = Append(log, Event("call", idx, attempt))
        /\ last_call' = [file |-> idx, attempt |-> attempt, result |-> r,
                         name |-> upload_fn.name, keyword |-> upload_fn.param]
        /\ io' = LET h == UploadHandles(upload_fn, r)
                 IN  Handles(io.opens + h.opens, io.calls + h.calls,
                             io.closes + h.closes, io.modes \cup h.modes)
        /\ IF c.ret
           THEN /\ response' = c.response
                /\ err' = c.err
                /\ attempt' = 0
                /\ last_err' = ""
                /\ pc' = "returned"
           ELSE IF MoreAttempts(attempt, args.retries)
           THEN /\ last_err' = c.last_err
                /\ pc' = "backoff"
                /\ UNCHANGED <<response, err, attempt>>
           ELSE /\ response' = None
                /\ err' = Exhausted(c.last_err, args.retries)
                /\ attempt' = 0
                /\ last_err' = ""
                /\ pc' = "returned"
        /\ UNCHANGED <<a1000, service, args, upload_fn, files, skipped, total_seen, idx,
                       uploaded, failed, summary, exit_code>>

\* Variant of Backoff: the attempt counter is not advanced.
BackoffSameAttempt ==
    /\ pc = "backoff"
    /\ log' = Append(log, Event("backoff", idx, Wait(args.retry_delay, attempt)))
    /\ pc' = "attempt"
    /\ UNCHANGED <<a1000, service, io, args, upload_fn, files, skipped, total_seen, idx,
                   uploaded, failed, response, err, attempt, last_err, summary, exit_code,
                   last_call>>

\* time.sleep(wait) before the next attempt.
Backoff ==
    /\ pc = "backoff"
    /\ log' = Append(log, Event("backoff", idx, Wait(args.retry_delay, attempt)))
    /\ attempt' = attempt + 1
    /\ pc' = "attempt"
    /\ UNCHANGED <<a1000, service, io, args, upload_fn, files, skipped, total_seen, idx, uploaded,
                   failed, response, err, last_err, summary, exit_code, last_call>>

\* Variant of MoreFiles: the comparison lets the last file through.
MoreFilesInclusive(i, n) == i <= n

\* idx < len(files): a pacing sleep follows the file.
MoreFiles(i, n) == i < n

\* Variant of Record: a failed file is taken again by the loop.
RecordRetryFailed ==
    /\ pc = "returned"
    /\ IF err = None
       THEN /\ uploaded' = uploaded + 1
            /\ log' = Append(log, Event("ok", idx, 0))
            /\ pc' = IF MoreFiles(idx, Len(files)) THEN "pace" ELSE "summary"
            /\ UNCHANGED <<failed, idx>>
       ELSE /\ failed' = failed + 1
            /\ log' = Append(log, Event("fail", idx, 0))
            /\ pc' = "next"
            /\ idx' = idx - 1
            /\ UNCHANGED uploaded
    /\ response' = None
    /\ err' = None
    /\ last_call' = None
    /\ UNCHANGED <<a1000, service, io, args, upload_fn, files, skipped, total_seen, attempt,
                   last_err, summary, exit_code>>

\* Variant of Record: the loop is left at the first failed file.
RecordStopOnFailure ==
    /\ pc = "returned"
    /\ IF err = None
       THEN /\ uploaded' = uploaded + 1
            /\ log' = Append(log, Event("ok", idx, 0))
            /\ pc' = IF MoreFiles(idx, Len(files)) THEN "pace" ELSE "summary"
            /\ UNCHANGED failed
       ELSE /\ failed' = failed + 1
            /\ log' = Append(log, Event("fail", idx, 0))
            /\ pc' = "summary"
            /\ UNCHANGED uploaded
    /\ response' = None
    /\ err' = None
    /\ last_call' = None
    /\ UNCHANGED <<a1000, service, io, args, upload_fn, files, skipped, total_seen, idx, attempt,
                   last_err, summary, exit_code>>

\* main takes the result of upload_with_retry: the result line and the
\* counter, then the check for the pacing sleep.  response and err are not
\* read after the result line; the model clears them, and the history of
\* the call with them.
Record ==
    /\ pc = "returned"
    /\ IF err = None
       THEN /\ uploaded' = uploaded + 1
            /\ log' = Append(log, Event("ok", idx, 0))
            /\ UNCHANGED failed
       ELSE /\ failed' = failed + 1
            /\ log' = Append(log, Event("fail", idx, 0))
            /\ UNCHANGED uploaded
    /\ pc' = IF MoreFiles(idx, Len(files)) THEN "pace" ELSE "summary"
    /\ response' = None
    /\ err' = None
    /\ last_call' = None
    /\ UNCHANGED <<a1000, service, io, args, upload_fn, files, skipped, total_seen, idx, attempt,
                   last_err, summary, exit_code>>

\* time.sleep(args.sleep) between two files.
Pace ==
    /\ pc = "pace"
    /\ log' = Append(log, Event("pace", idx, args.sleep))
    /\ pc' = "next"
    /\ UNCHANGED <<a1000, service, io, args, upload_fn, files, skipped, total_seen, idx, uploaded,
                   failed, response, err, attempt, last_err, summary, exit_code,
                   last_call>>

\* Variant of Summary: main returns after the summary whatever failed is.
SummaryReturns ==
    /\ pc = "summary"
    /\ summary' = [uploaded |-> uploaded, failed |-> failed, skipped |-> skipped,
                   total |-> total_seen]
    /\ exit_code' = [code |-> 0]
    /\ pc' = "done"
    /\ UNCHANGED <<a1000, service, io, args, upload_fn, files, skipped, total_seen, idx,
                   uploaded, failed, response, err, attempt, last_err, log, last_call>>

\* print_summary after the loop, and the exit status.
Summary ==
    /\ pc = "summary"
    /\ summary' = [uploaded |-> uploaded, failed |-> failed, skipped |-> skipped,
                   total |-> total_seen]
    /\ exit_code' = [code |-> IF failed > 0 THEN 1 ELSE 0]
    /\ pc' = "done"
    /\ UNCHANGED <<a1000, service, io, args, upload_fn, files, skipped, total_seen, idx, uploaded,
                   failed, response, err, attempt, last_err, log, last_call>>

Next ==
    \/ Resolve
    \/ ResolveExit
    \/ ResolveRaise
    \/ \E order \in OrdersFor(args.target_path) : Collect(order)
    \/ CollectExit
    \/ BeginUpload
    \/ \E r \in Results : Attempt(r)
    \/ Backoff
    \/ Record
    \/ Pace
    \/ Summary

Spec == Init /\ [][Next]_vars

\* Runs on the directory, or on a path that does not exist, without
\* recursion and with *.tmp excluded, for --retries from -1 to 2.
InitFair ==
    InitFrom(Clients, AnyResult, DirPaths \cup {<<"n", "o">>}, {FALSE}, {ExcludeTmp},
             RetriesUpTo(2), {DefaultRetryDelay}, Sleeps)

\* The steps of main other than the return of collect_files.
Running ==
    \/ Resolve
    \/ ResolveExit
    \/ ResolveRaise
    \/ CollectExit
    \/ BeginUpload
    \/ \E r \in Results : Attempt(r)
    \/ Backoff
    \/ Record
    \/ Pace
    \/ Summary

\* One of the listing orders.
SomeOrder == CHOOSE order \in DirOrders : TRUE

\* The process is one thread: a call of the upload operation returns or
\* raises, a sleep ends, collect_files returns, and the step that is next is
\* taken.  Collect is enabled for one listing order exactly when it is for
\* every order, and any Collect step disables it, so that fairness for the
\* one order is fairness for the return of collect_files.
FairSpec == InitFair /\ [][Next]_vars /\ WF_vars(Running) /\ WF_vars(Collect(SomeOrder))

(* ---------------------------------------------------------------------- *)
(* Properties.                                                             *)
(* ---------------------------------------------------------------------- *)

\* The positions of the log that hold a call of the upload operation for
\* file number i, and those that hold its result line.
CallsOf(i) == {k \in DOMAIN log : log[k].ev = "call" /\ log[k].file = i}

OutcomesOf(i) == {k \in DOMAIN log : log[k].ev \in {"ok", "fail"} /\ log[k].file = i}

\* The seconds of the backoff sleeps of file number i, in order.
BackoffsOf(i) ==
    LET IsBackoff(e) == e.ev = "backoff" /\ e.file = i
        evs == SelectSeq(log, IsBackoff)
    IN  [k \in 1..Len(evs) |-> evs[k].n]

\* upload_with_retry has returned to main after at least one call.
ReturnedAfterCall == pc = "returned" /\ last_call # None

\* upload_with_retry is between two attempts of the current file.
BetweenAttempts == pc \in {"attempt", "backoff"} /\ last_call # None

\* The classes of results the specification names.
TransientStatus(code) == code = 429 \/ code >= 500

SuccessReturn(r) == r.kind = "return" /\ 200 <= r.status /\ r.status < 300

TransientReturn(r) == r.kind = "return" /\ TransientStatus(r.status)

ClientErrorReturn(r) ==
    r.kind = "return" /\ r.status >= 400 /\ ~TransientStatus(r.status)

TransientRaise(r) ==
    \/ r.kind \in {"timeout", "connection"}
    \/ r.kind = "error" /\ r.embedded /\ TransientStatus(r.status)

\* The text the specification records for a transient result.
TransientText(r) ==
    CASE r.kind = "return" -> "HTTP " \o ToString(r.status)
      [] r.kind = "timeout" -> "timeout"
      [] r.kind = "connection" -> "connection error: " \o r.text
      [] OTHER -> "HTTP " \o ToString(r.status) \o " (via " \o r.name \o ")"

AfterAttempts(text, n) == Str(text \o " after " \o ToString(n) \o " attempts")

\* C1: with retries >= 1 the upload operation is never called more than
\* retries times for a file; and when upload_with_retry returns after a call
\* that was classified retryable, the operation has been called exactly
\* retries times for the file and the result is the failure
\* "<last error> after <retries> attempts", <last error> being the
\* classification of that final call.
C1_BoundedAttempts ==
    args.retries >= 1 =>
        /\ \A i \in 1..Len(files) : Cardinality(CallsOf(i)) <= args.retries
        /\ (ReturnedAfterCall /\ ~Classify(last_call.result).ret) =>
              /\ Cardinality(CallsOf(idx)) = args.retries
              /\ last_call.attempt = args.retries
              /\ response = None
              /\ err = AfterAttempts(TransientText(last_call.result), args.retries)

\* C1 witness: three attempts, the last one a 503, have exhausted retries = 3.
C1_Witness ==
    /\ pc = "returned"
    /\ args.retries = 3
    /\ Cardinality(CallsOf(idx)) = 3
    /\ last_call # None
    /\ last_call.result = Returns(503)
    /\ err = Str("HTTP 503 after 3 attempts")

\* C2: every backoff sleep directly follows a call of the same file, attempt
\* k < retries, whose result was retryable, lasts retry_delay * k seconds and
\* is directly followed by attempt k + 1 of that file; every attempt k + 1 is
\* directly preceded by such a sleep; with retries = 3 and retry_delay = 5 a
\* file whose attempts were all retryable has slept exactly 5, 10.
C2_LinearBackoff ==
    /\ \A p \in DOMAIN log :
          log[p].ev = "backoff" =>
              /\ p > 1
              /\ log[p - 1].ev = "call"
              /\ log[p - 1].file = log[p].file
              /\ log[p - 1].n < args.retries
              /\ log[p].n = args.retry_delay * log[p - 1].n
              /\ IF p < Len(log)
                 THEN log[p + 1] = Event("call", log[p].file, log[p - 1].n + 1)
                 ELSE pc = "attempt" /\ attempt = log[p - 1].n + 1 /\ idx = log[p].file
    /\ \A p \in DOMAIN log :
          (log[p].ev = "call" /\ log[p].n > 1) =>
              /\ p > 1
              /\ log[p - 1] = Event("backoff", log[p].file,
                                    args.retry_delay * (log[p].n - 1))
    /\ pc = "backoff" =>
          /\ last_call # None
          /\ TransientReturn(last_call.result) \/ TransientRaise(last_call.result)
          /\ log[Len(log)] = Event("call", idx, attempt)
    /\ (ReturnedAfterCall /\ args.retries = 3 /\ args.retry_delay = 5
            /\ ~Classify(last_call.result).ret) =>
          BackoffsOf(idx) = <<5, 10>>

\* C2 witness: four attempts with retry_delay = 5 have slept 5, 10, 15.
C2_Witness ==
    /\ pc = "returned"
    /\ args.retry_delay = 5
    /\ BackoffsOf(idx) = <<5, 10, 15>>
    /\ log[Len(log)] = Event("call", idx, 4)

\* C3: a call that returns a status >= 400 other than 429 and below 500
\* ends upload_with_retry at once with the failure "HTTP <status>", whatever
\* retries is: the call is the last event of the file so far, no backoff
\* sleep follows it, the file has had as many calls as the attempt number of
\* that call, and no attempt or sleep is ever pending after such a call.
C3_ClientErrorNotRetried ==
    /\ (ReturnedAfterCall /\ ClientErrorReturn(last_call.result)) =>
          /\ err = Str("HTTP " \o ToString(last_call.result.status))
          /\ response = Response(last_call.result.status)
          /\ log[Len(log)] = Event("call", idx, last_call.attempt)
          /\ Cardinality(CallsOf(idx)) = last_call.attempt
    /\ BetweenAttempts => ~ClientErrorReturn(last_call.result)

\* C3 witness: a 404 at the first attempt with retries = 4 has failed the
\* file after one call.
C3_Witness ==
    /\ pc = "returned"
    /\ args.retries = 4
    /\ last_call # None
    /\ last_call.result = Returns(404)
    /\ Cardinality(CallsOf(idx)) = 1
    /\ err = Str("HTTP 404")

\* C4: a call that returns 429 or a status >= 500 is retried while attempts
\* remain (upload_with_retry returns after it only at attempt = retries); a
\* call that returns a status in [200,300) at attempt j ends the file with
\* success carrying that response, after exactly j calls, the call being the
\* last event of the file so far; and no attempt or sleep is ever pending
\* after a call that returned a 2xx status.
C4_TransientThenSuccess ==
    /\ (ReturnedAfterCall /\ TransientReturn(last_call.result)) =>
          /\ last_call.attempt = args.retries
          /\ err # None
    /\ (BetweenAttempts /\ last_call.result.kind = "return") =>
          TransientReturn(last_call.result)
    /\ (ReturnedAfterCall /\ SuccessReturn(last_call.result)) =>
          /\ err = None
          /\ response = Response(last_call.result.status)
          /\ last_call.attempt <= args.retries
          /\ Cardinality(CallsOf(idx)) = last_call.attempt
          /\ log[Len(log)] = Event("call", idx, last_call.attempt)

\* C4 witness: the third attempt of a file returned 299 after two retried
\* attempts.
C4_Witness ==
    /\ pc = "returned"
    /\ last_call # None
    /\ last_call.attempt = 3
    /\ last_call.result = Returns(299)
    /\ BackoffsOf(idx) = <<5, 10>>
    /\ err = None
    /\ response = Response(299)

\* C5: a call that raises a timeout, a connection error, or another error
\* with an embedded status of 429 or >= 500 is retried while attempts remain
\* and fails the file with its text after retries attempts; another error
\* with any other embedded status fails the file at once with
\* "HTTP <status>" and no response, also for an embedded 2xx; an error
\* without embedded status fails the file at once with its message.
C5_RaisedErrors ==
    /\ (ReturnedAfterCall /\ TransientRaise(last_call.result)) =>
          /\ last_call.attempt = args.retries
          /\ response = None
          /\ err = AfterAttempts(TransientText(last_call.result), args.retries)
    /\ (BetweenAttempts /\ last_call.result.kind # "return") =>
          TransientRaise(last_call.result)
    /\ (ReturnedAfterCall /\ last_call.result.kind = "error"
            /\ last_call.result.embedded /\ ~TransientStatus(last_call.result.status)) =>
          /\ response = None
          /\ err = Str("HTTP " \o ToString(last_call.result.status))
          /\ log[Len(log)] = Event("call", idx, last_call.attempt)
    /\ (ReturnedAfterCall /\ last_call.result.kind = "error"
            /\ ~last_call.result.embedded) =>
          /\ response = None
          /\ err = Str(last_call.result.text)
          /\ log[Len(log)] = Event("call", idx, last_call.attempt)

\* C5 witness: an error that carries a 200 response at the first of four
\* attempts has failed the file with "HTTP 200".
C5_Witness ==
    /\ pc = "returned"
    /\ args.retries = 4
    /\ last_call # None
    /\ last_call.attempt = 1
    /\ last_call.result = RaisesWith(200)
    /\ response = None
    /\ err = Str("HTTP 200")

\* The positions of the log that hold a result line, and the run having
\* printed its summary and ended.
IsOutcome(e) == e.ev \in {"ok", "fail"}

Completed == pc = "done" /\ summary # None

\* C6: no file ever has more than one result line, a result line is "ok" or
\* "fail", nothing of a file (call or sleep between its attempts) follows
\* its result line and no call of it is pending after it; in a completed run
\* every collected file has exactly one result line.
C6_OneOutcomePerFile ==
    /\ \A k \in DOMAIN log : log[k].file \in 1..Len(files)
    /\ \A i \in 1..Len(files) : Cardinality(OutcomesOf(i)) <= 1
    /\ \A k \in DOMAIN log :
          IsOutcome(log[k]) =>
              \A m \in DOMAIN log :
                  (m > k /\ log[m].file = log[k].file) => log[m].ev = "pace"
    /\ \A i \in 1..Len(files) :
          OutcomesOf(i) # {} =>
              (idx = i => pc \in {"pace", "next", "summary", "done"})
    /\ Completed => \A i \in 1..Len(files) : Cardinality(OutcomesOf(i)) = 1

\* C6 witness: a completed run over two or more files with a succeeded and a
\* failed file, each with one result line.
C6_Witness ==
    /\ Completed
    /\ Len(files) >= 2
    /\ \E i, j \in 1..Len(files) :
          /\ \E k \in OutcomesOf(i) : log[k].ev = "ok"
          /\ \E k \in OutcomesOf(j) : log[k].ev = "fail"
          /\ Cardinality(CallsOf(j)) = 3

\* The regular files collect_files visits: the target itself, or the regular
\* files in the directory, or under it when recursive.
IsUnder(p, d) ==
    /\ Len(p) > Len(d) + 1
    /\ SubSeq(p, 1, Len(d)) = d
    /\ p[Len(d) + 1] = "/"

VisitedFiles ==
    IF Kind(args.target_path) = "file" THEN {args.target_path}
    ELSE {e.path : e \in
            {x \in Entries :
                /\ x.kind = "file"
                /\ IF args.recursive THEN IsUnder(x.path, args.target_path)
                   ELSE LastSlash(x.path) # 0 /\ Parent(x.path) = args.target_path}}

ExcludedVisited ==
    {p \in VisitedFiles :
        \E k \in 1..Len(args.exclude) : fnmatch(BaseName(p), args.exclude[k])}

CountEv(ev) == Cardinality({k \in DOMAIN log : log[k].ev = ev})

\* C7: at every point uploaded is the number of "ok" lines, failed the number
\* of "fail" lines, and their sum the number of files that have their result
\* line; the summary has uploaded + failed + skipped = total, skipped being
\* the number of visited regular files an exclude pattern matches and total
\* the number of regular files visited.
C7_CounterAccounting ==
    /\ uploaded = CountEv("ok")
    /\ failed = CountEv("fail")
    /\ uploaded + failed = Cardinality({i \in 1..Len(files) : OutcomesOf(i) # {}})
    /\ summary # None =>
          /\ summary.uploaded = uploaded
          /\ summary.failed = failed
          /\ summary.uploaded + summary.failed + summary.skipped = summary.total
          /\ summary.skipped = Cardinality(ExcludedVisited)
          /\ summary.total = Cardinality(VisitedFiles)

\* C7 witness: a summary with an uploaded, a failed and a skipped file on a
\* directory listed without recursion.
C7_Witness ==
    /\ summary # None
    /\ ~args.recursive
    /\ summary.uploaded = 1
    /\ summary.failed = 1
    /\ summary.skipped = 1
    /\ summary.total = 3

\* The pair upload_with_retry returns after a final call with result r,
\* in the terms of the specification's state machine of one file.
OwnOutcome(r, retries) ==
    IF SuccessReturn(r) THEN <<Response(r.status), None>>
    ELSE IF TransientReturn(r) \/ TransientRaise(r)
    THEN <<None, AfterAttempts(TransientText(r), retries)>>
    ELSE IF r.kind = "return"
    THEN <<Response(r.status), Str("HTTP " \o ToString(r.status))>>
    ELSE IF r.embedded THEN <<None, Str("HTTP " \o ToString(r.status))>>
    ELSE <<None, Str(r.text)>>

\* C8: a "fail" line of a file that is not the last is directly followed by
\* the pacing sleep and the next file, never by the end of the run; the
\* process ends only with every collected file having its result line and,
\* with retries >= 1, its first attempt; and the pair a file's
\* upload_with_retry returns is the one its own final call gives, whatever
\* the counters and the lines of the files before it are.
C8_FailureContained ==
    /\ \A k \in DOMAIN log :
          (log[k].ev = "fail" /\ log[k].file < Len(files)) =>
              /\ exit_code = None \/ k < Len(log)
              /\ IF k < Len(log)
                 THEN log[k + 1] = Event("pace", log[k].file, args.sleep)
                 ELSE pc = "pace"
    /\ (exit_code # None /\ files # <<>>) =>
          /\ summary # None
          /\ \A i \in 1..Len(files) :
                /\ OutcomesOf(i) # {}
                /\ args.retries >= 1 => \E k \in CallsOf(i) : log[k].n = 1
    /\ ReturnedAfterCall =>
          <<response, err>> = OwnOutcome(last_call.result, args.retries)

\* C8 witness: a completed run in which the first of three files failed at
\* its first attempt and the two after it were uploaded.
C8_Witness ==
    /\ Completed
    /\ Len(files) = 3
    /\ log[1] = Event("call", 1, 1)
    /\ log[2] = Event("fail", 1, 0)
    /\ \E k \in OutcomesOf(2) : log[k].ev = "ok"
    /\ \E k \in OutcomesOf(3) : log[k].ev = "ok"

\* C9: every pacing sleep lasts args.sleep seconds, directly follows the
\* result line ("ok" or "fail") of a file that is not the last and is
\* followed by the first event of the next file; every result line of a file
\* that is not the last is directly followed by a pacing sleep; nothing
\* follows the result line of the last file; a completed run over n >= 1
\* files has slept n - 1 times, and a run without files never.
C9_PacingSleeps ==
    /\ \A p \in DOMAIN log :
          log[p].ev = "pace" =>
              /\ p > 1
              /\ IsOutcome(log[p - 1])
              /\ log[p - 1].file = log[p].file
              /\ log[p].file < Len(files)
              /\ log[p].n = args.sleep
              /\ IF p < Len(log)
                 THEN /\ log[p + 1].file = log[p].file + 1
                      /\ \/ log[p + 1] = Event("call", log[p].file + 1, 1)
                         \/ args.retries < 1 /\ log[p + 1].ev = "fail"
                 ELSE /\ pc \in {"next", "attempt", "returned"}
                      /\ pc = "attempt" => attempt = 1
                      /\ pc = "returned" => args.retries < 1
    /\ \A p \in DOMAIN log :
          IsOutcome(log[p]) =>
              IF log[p].file < Len(files)
              THEN IF p < Len(log) THEN log[p + 1].ev = "pace" ELSE pc = "pace"
              ELSE p = Len(log) /\ pc \in {"summary", "done"}
    /\ Completed =>
          CountEv("pace") = IF Len(files) = 0 THEN 0 ELSE Len(files) - 1

\* C9 witness: a completed run over three files with two pacing sleeps, one
\* after a failed and one after an uploaded file.
C9_Witness ==
    /\ Completed
    /\ Len(files) = 3
    /\ CountEv("pace") = 2
    /\ \E p, q \in DOMAIN log :
          /\ log[p] = Event("pace", 1, args.sleep) /\ log[p - 1].ev = "fail"
          /\ log[q] = Event("pace", 2, args.sleep) /\ log[q - 1].ev = "ok"

\* C10: the file list is strictly ascending by absolute path; the events of
\* the log are grouped by file in list order; the attempts of a file are
\* numbered 1, 2, ... without a gap; and the first attempt of file i + 1
\* comes after the result line of file i.
C10_SequentialInOrder ==
    /\ \A i \in 1..(Len(files) - 1) : StrLess(files[i], files[i + 1])
    /\ \A i \in 1..Len(files) : files[i][1] = "/"
    /\ \A p, q \in DOMAIN log : p < q => log[p].file <= log[q].file
    /\ \A p \in DOMAIN log :
          log[p].ev = "call" =>
              /\ log[p].n = Cardinality({q \in CallsOf(log[p].file) : q <= p})
              /\ log[p].file > 1 =>
                    \E q \in OutcomesOf(log[p].file - 1) : q < p
              /\ OutcomesOf(log[p].file) \cap 1..p = {}

\* C10 witness: a completed run over the four files of the recursive
\* listing, with a retried second file.
C10_Witness ==
    /\ Completed
    /\ Len(files) = 4
    /\ files[4] = <<"/", "w", "/", "r", "/", "s", ".", "t", "m", "p", "/", "d", ".",
                    "t", "x", "t">>
    /\ \A i \in 1..4 : CallsOf(i) # {}
    /\ Cardinality(CallsOf(2)) = 2



\* C11: a run that printed its summary has ended, with exit status 0 when
\* the summary's failed count is 0 and with exit status 1 when it is not;
\* the failed count is the number of failure lines, so the status is 0
\* exactly when no file failed, a run that collected no file included.
C11_ExitCode ==
    summary # None =>
        /\ pc = "done"
        /\ exit_code \in {[code |-> 0], [code |-> 1]}
        /\ exit_code = [code |-> 0] <=> summary.failed = 0
        /\ summary.failed = Cardinality({k \in DOMAIN log : log[k].ev = "fail"})
        /\ files = <<>> => exit_code = [code |-> 0]

\* C11 witness: a run with an uploaded file and a failed file has ended with
\* status 1.
C11_Witness ==
    /\ summary # None
    /\ summary.uploaded >= 1
    /\ summary.failed >= 1
    /\ exit_code = [code |-> 1]

\* The client has none of the four upload methods.
NoEntryPoint ==
    ~\E m \in a1000 :
        m.name \in {"upload_sample_from_path", "submit_file_from_path",
                    "upload_sample_from_file", "submit_file_from_handle"}

\* The target path is neither a regular file nor a directory.
BadTarget == Kind(args.target_path) \notin {"file", "dir"}

\* The process has ended with a status other than 0 and takes no further step.
ExitedNonZero ==
    /\ exit_code # None
    /\ exit_code.code # 0
    /\ ~ENABLED Next

\* C12: with a client that has none of the upload methods, the run never
\* gets past the resolution: nothing is collected, the upload operation is
\* never called, no summary is printed, and the run ends with a non-zero
\* status and no further step.  With a target that is neither a file nor a
\* directory the run never gets past the collection: no file is collected,
\* the upload operation is never called, no summary is printed, and the run
\* ends with a non-zero status and no further step.
C12_FatalErrors ==
    /\ NoEntryPoint =>
          /\ pc \in {"resolve", "done"}
          /\ files = <<>> /\ skipped = 0 /\ total_seen = 0
          /\ log = <<>>
          /\ io.opens = 0
          /\ summary = None
          /\ pc = "done" => ExitedNonZero
    /\ BadTarget =>
          /\ pc \in {"resolve", "collect", "done"}
          /\ files = <<>> /\ skipped = 0 /\ total_seen = 0
          /\ log = <<>>
          /\ io.opens = 0
          /\ summary = None
          /\ pc = "done" => ExitedNonZero

\* C12 witness: an operation was bound, the target does not exist, and the
\* run has ended with status 1 at the collection.
C12_Witness ==
    /\ BadTarget
    /\ upload_fn # None
    /\ pc = "done"
    /\ exit_code = [code |-> 1]
    /\ log = <<>>

\* The two files of the scenario that are uploaded.
FileA == AbsPath(<<"r", "/", "a", ".", "t", "x", "t">>)

FileB == AbsPath(<<"r", "/", "b", ".", "e", "x", "e">>)

\* The scenario: the directory r (a.txt, b.exe and c.tmp), listed without
\* recursion, *.tmp excluded, three attempts, a client with an upload method,
\* and an appliance that answers a.txt with 200 and b.exe with 503 always.
Scenario ==
    /\ args.target_path = <<"r">>
    /\ ~args.recursive
    /\ args.exclude = ExcludeTmp
    /\ args.retries = 3
    /\ ~NoEntryPoint
    /\ service # None
    /\ service[FileA] = Returns(200)
    /\ service[FileB] = Returns(503)

\* C13: in the scenario the collection is [a.txt, b.exe] with one file
\* skipped; the completed run has called the operation once for a.txt and
\* three times for b.exe (with sleeps of 5 and 10 seconds between them),
\* printed uploaded = 1, failed = 1, skipped = 1, total = 3 and ended with a
\* non-zero status.
C13_Scenario ==
    Scenario =>
        /\ pc \notin {"resolve", "collect"} =>
              /\ files = <<FileA, FileB>>
              /\ skipped = 1
        /\ pc = "done" =>
              /\ Cardinality(CallsOf(1)) = 1
              /\ Cardinality(CallsOf(2)) = 3
              /\ log = << Event("call", 1, 1), Event("ok", 1, 0),
                          Event("pace", 1, args.sleep),
                          Event("call", 2, 1), Event("backoff", 2, 5),
                          Event("call", 2, 2), Event("backoff", 2, 10),
                          Event("call", 2, 3), Event("fail", 2, 0) >>
              /\ summary = [uploaded |-> 1, failed |-> 1, skipped |-> 1, total |-> 3]
              /\ exit_code # None
              /\ exit_code.code # 0

\* C13 witness: the run of the scenario has ended after the three calls for
\* b.exe.
C13_Witness ==
    /\ Scenario
    /\ pc = "done"
    /\ Cardinality(CallsOf(2)) = 3
    /\ summary # None
    /\ summary.failed = 1

\* The operation bound is handle-based.
HandleBased == upload_fn # None /\ upload_fn.kind = "handle"

\* C14: between the calls of the operation no handle is open (as many closes
\* as opens), every open was in mode "rb", and a path-based operation opens
\* nothing; one call of a handle-based operation opens the file once, calls
\* the method once and closes the handle once when the open succeeds, however
\* the method ends, and does none of the three when the open fails; so the
\* opens, the closes and the calls of the method all number the attempts whose
\* open succeeded.
C14_HandleClosed ==
    /\ [](/\ io.opens = io.closes
          /\ io.opens = io.calls
          /\ io.opens <= CountEv("call")
          /\ io.modes \subseteq {"rb"}
          /\ ~HandleBased => io.opens = 0)
    /\ [][(pc = "attempt" /\ HandleBased) =>
             IF last_call'.result = OpenFails
             THEN io' = io
             ELSE /\ io'.opens = io.opens + 1
                  /\ io'.calls = io.calls + 1
                  /\ io'.closes = io.closes + 1
                  /\ io'.modes = {"rb"}]_vars

\* C14 witness: a handle-based operation has been called twice for a file,
\* the second call ended with an exception of the method, and both handles
\* are closed.
C14_Witness ==
    /\ HandleBased
    /\ pc = "returned"
    /\ last_call # None
    /\ last_call.attempt = 2
    /\ last_call.result = Raises("error", "ValueError", "boom")
    /\ io.opens = 2
    /\ io.closes = 2

\* The four entry points in the order of their priority, and the first of
\* them the client has (0 when it has none).
Priority ==
    <<"upload_sample_from_path", "submit_file_from_path",
      "upload_sample_from_file", "submit_file_from_handle">>

Has(name) == \E m \in a1000 : m.name = name

FirstByPriority ==
    IF \E i \in 1..4 : Has(Priority[i])
    THEN CHOOSE i \in 1..4 : Has(Priority[i]) /\ \A j \in 1..(i - 1) : ~Has(Priority[j])
    ELSE 0

\* C15: a bound operation wraps the first entry point of the priority order
\* the client has, path-based when that is one of the first two and
\* handle-based otherwise; nothing is collected or uploaded before the
\* resolution, every later step of a run has the operation bound unless the
\* resolution ended the run, every call goes to the entry point bound, and a
\* bound operation is never replaced.
C15_ResolvePriority ==
    /\ [](/\ upload_fn # None =>
                /\ FirstByPriority # 0
                /\ upload_fn.name = Priority[FirstByPriority]
                /\ upload_fn.kind = IF FirstByPriority <= 2 THEN "path" ELSE "handle"
                /\ pc # "resolve"
          /\ pc = "resolve" =>
                /\ upload_fn = None
                /\ files = <<>> /\ skipped = 0 /\ total_seen = 0
                /\ log = <<>>
          /\ (pc # "resolve" /\ upload_fn = None) =>
                /\ pc = "done"
                /\ log = <<>>
                /\ summary = None
                /\ \/ FirstByPriority = 0
                   \/ \E m \in a1000 : m.name = Priority[FirstByPriority] /\ ~m.signature
          /\ last_call # None =>
                /\ upload_fn # None
                /\ last_call.name = upload_fn.name)
    /\ [][upload_fn # None => upload_fn' = upload_fn]_vars

\* C15 witness: the client has every entry point but upload_sample_from_path,
\* and the file has been uploaded through submit_file_from_path.
C15_Witness ==
    /\ {m.name : m \in a1000} =
          {"submit_file_from_path", "upload_sample_from_file", "submit_file_from_handle"}
    /\ upload_fn # None
    /\ upload_fn.name = "submit_file_from_path"
    /\ upload_fn.kind = "path"
    /\ last_call # None
    /\ last_call.name = "submit_file_from_path"

\* collect_files has returned to main.
Collected == pc \notin {"resolve", "collect"} /\ (pc = "done" => summary # None)

\* C16: what collect_files returns partitions the regular files it visited:
\* the list holds, once each and as absolute paths, exactly the visited
\* regular files whose basename matches no pattern, the count is the number
\* of visited regular files whose basename matches at least one pattern, and
\* list length plus count is the number of visited regular files, so that a
\* directory or another entry that is no regular file is in neither; for a
\* target that is a regular file the result is the list of that file with
\* count 0, or the empty list with count 1 when a pattern matches it.
C16_CollectPartition ==
    Collected =>
        /\ Len(files) + skipped = Cardinality(VisitedFiles)
        /\ skipped = Cardinality(ExcludedVisited)
        /\ {files[i] : i \in DOMAIN files} =
              {AbsPath(p) : p \in VisitedFiles \ ExcludedVisited}
        /\ Cardinality({files[i] : i \in DOMAIN files}) = Len(files)
        /\ \A i \in DOMAIN files :
              \E e \in Entries : e.kind = "file" /\ files[i] = AbsPath(e.path)
        /\ IsFile(args.target_path) =>
              IF \E k \in 1..Len(args.exclude) :
                    fnmatch(BaseName(args.target_path), args.exclude[k])
              THEN files = <<>> /\ skipped = 1
              ELSE files = <<AbsPath(args.target_path)>> /\ skipped = 0

\* C16 witness: the recursive walk with the patterns *.tmp and [a-c].* has
\* kept d.txt and counted a.txt, b.exe and c.tmp (which matches both
\* patterns) once each.
C16_Witness ==
    /\ Collected
    /\ args.recursive
    /\ IsDir(args.target_path)
    /\ Len(args.exclude) = 2
    /\ Len(files) = 1
    /\ skipped = 3

\* The path-based entry point resolve_upload_fn binds: the first of the two
\* path-based names the client has.
BindsPathBased == FirstByPriority \in {1, 2}

PathEntryPoint == CHOOSE m \in a1000 : m.name = Priority[FirstByPriority]

\* Introspection gives no parameter name for method m: inspect.signature
\* raises, or the signature it returns has no parameter to name.
NoParameterName(m) ==
    \/ ~m.signature
    \/ m.params = <<>>
    \/ m.params = <<"self">>

\* C17: once the resolution of a client is over whose path-based entry point
\* gives no parameter name, an operation is bound that calls this entry point
\* with the path as its only positional argument, and the run has not ended
\* at the resolution.
C17_PositionalFallback ==
    (pc # "resolve" /\ BindsPathBased /\ NoParameterName(PathEntryPoint)) =>
        /\ upload_fn # None
        /\ upload_fn.kind = "path"
        /\ upload_fn.name = PathEntryPoint.name
        /\ upload_fn.param = ""
        /\ last_call # None => last_call.keyword = ""

\* C17, the part that holds: with a signature that names no parameter the
\* operation bound calls the entry point positionally.
C17_FallbackReached ==
    /\ BindsPathBased
    /\ PathEntryPoint.signature
    /\ NoParameterName(PathEntryPoint)
    /\ upload_fn # None
    /\ upload_fn.param = ""
    /\ last_call # None
    /\ last_call.keyword = ""

\* C17, the failing run: inspect.signature raised for the path-based entry
\* point, and the run has ended at the resolution with status 1 and no
\* operation bound.
C17_Witness ==
    /\ BindsPathBased
    /\ ~PathEntryPoint.signature
    /\ pc = "done"
    /\ upload_fn = None
    /\ exit_code = [code |-> 1]
    /\ log = <<>>

\* C18: whatever the value of --retries, a failure line of a file comes
\* after at least one call of the upload operation for that file.
C18_AttemptedBeforeFailed ==
    \A k \in DOMAIN log :
        log[k].ev = "fail" =>
            \E c \in CallsOf(log[k].file) : c < k

\* C18, the failing run: with --retries 0 the file has its failure line and
\* is counted failed, and the upload operation was never called.
C18_Witness ==
    /\ args.retries = 0
    /\ Completed
    /\ summary.failed = 1
    /\ CountEv("fail") = 1
    /\ CountEv("call") = 0
    /\ exit_code = [code |-> 1]

\* A response whose status is neither in [200, 300) nor transient.
OtherReturn(r) == r.kind = "return" /\ ~SuccessReturn(r) /\ ~TransientReturn(r)

\* C19: every returned response is of exactly one of three classes, success
\* (200 to 299), transient (429, 500 and above) and other, 1xx and 3xx among
\* the last; upload_with_retry returns on an other response at once, with
\* the response and "HTTP <status>", and never sleeps for another attempt
\* after one; it returns without an error exactly when its latest call
\* returned a response of 200 to 299, and main prints the "ok" line of a file
\* exactly then.
C19_TotalClassification ==
    /\ [](/\ last_call # None /\ last_call.result.kind = "return" =>
                \/ SuccessReturn(last_call.result)
                \/ TransientReturn(last_call.result)
                \/ OtherReturn(last_call.result)
          /\ last_call # None /\ OtherReturn(last_call.result) =>
                /\ pc = "returned"
                /\ response = Response(last_call.result.status)
                /\ err = Str("HTTP " \o ToString(last_call.result.status))
                /\ log[Len(log)] = Event("call", idx, last_call.attempt)
          /\ pc = "returned" =>
                (err = None <=> (last_call # None /\ SuccessReturn(last_call.result))))
    /\ [][pc = "returned" =>
             (log'[Len(log')].ev = "ok"
                 <=> (last_call # None /\ SuccessReturn(last_call.result)))]_vars

\* C19 witness: with three attempts allowed, the first call returned a 300
\* and upload_with_retry has returned "HTTP 300".
C19_Witness ==
    /\ pc = "returned"
    /\ args.retries = 3
    /\ last_call # None
    /\ last_call.attempt = 1
    /\ last_call.result = Returns(300)
    /\ err = Str("HTTP 300")
    /\ Cardinality(CallsOf(idx)) = 1

\* The most entries one file adds to the log: its calls, the sleeps between
\* them, its result line and its pacing sleep.
StepsPerFile == IF args.retries >= 1 THEN 2 * args.retries + 1 ELSE 2

\* C20: every run ends; upload_with_retry returns for every file the loop
\* takes, and a run that has entered the loop prints its summary; the calls,
\* sleeps and result lines of a run number at most StepsPerFile for each file
\* taken so far, the calls of one file at most retries, whatever the results
\* of the calls are.
C20_Termination ==
    /\ <>(pc = "done")
    /\ (pc = "next") ~> (pc = "returned")
    /\ (pc = "next") ~> (summary # None)
    /\ [](/\ Len(log) <= idx * StepsPerFile
          /\ idx <= Len(files)
          /\ \A i \in 1..Len(files) :
                Cardinality(CallsOf(i)) <= IF args.retries >= 1 THEN args.retries ELSE 0)

\* C20 witness: a run of two files, each of them called twice with a
\* retryable result, has printed its summary.
C20_Witness ==
    /\ Completed
    /\ Len(files) = 2
    /\ args.retries = 2
    /\ \A i \in 1..2 : Cardinality(CallsOf(i)) = 2
    /\ summary.failed = 2

====
